---- MODULE Spec2Model ----
(***************************************************************************)
(* State-machine model of FN_Fixer.py: the ActionWorker queue and its      *)
(* consumer loop, the hotkey callbacks that feed it, the Normal/Media mode *)
(* switch with its hotkey bindings, the tray "Quit" handler, the           *)
(* brightness cascade with its cached backend, the microphone toggle, and  *)
(* the tray title with its flash restore timers.                           *)
(***************************************************************************)
EXTENDS Integers, Sequences, FiniteSets, Bags, TLC

VARIABLES
    \* ---- ModeState and the hotkey service (keyboard module) ----
    media_mode,        \* state.media_mode
    hotkey_handles,    \* state.hotkey_handles: sequence of handles
    registered,        \* handles currently registered with keyboard.add_hotkey
    nextHandle,        \* bind calls made so far (source of fresh handles)
    tpc,               \* per thread: position inside on_numlock_toggle / quit_action
    targ,              \* per thread: the `media` argument of set_mode
    tlist,             \* per thread: the list unbind_media_hotkeys iterates
    tnew,              \* per thread: handles h1.. created so far by bind_media_hotkeys
    tret,              \* per thread: who called unbind_media_hotkeys
    toggles,           \* completed on_numlock_toggle calls
    started,           \* started on_numlock_toggle calls
    app,               \* "running" until icon.stop() in quit_action
    \* ---- ActionWorker ----
    q,                 \* self.q
    _stop,             \* self._stop (threading.Event)
    _bright_pending,   \* self._bright_pending
    wpc,               \* worker thread position in _loop
    cur,               \* the (action, data) pair the worker dequeued
    wdelta,            \* local `delta` of the brightness_flush branch
    device,            \* per thread: the device operation it is executing
    cbpc,              \* hotkey-callback thread position
    \* ---- brightness cascade ----
    BRIGHT_METHOD_LAST,\* module global cache
    lastCall,          \* record of the last safe_change_brightness call
    \* ---- observation (history) variables ----
    presses,           \* producer calls started
    enqLog,            \* items in the order q.put accepted them
    execLog,           \* items in the order the worker dequeued them
    flashLog,          \* last message passed to flash_tray_title by the worker
    winAdded,          \* deltas added since the worker dequeued the current marker
    accAdded,          \* deltas added since the last read-and-zero
    unflushed,         \* deltas added minus deltas handed to safe_change_brightness
    \* ---- Notifier: the pystray icon ----
    icon,              \* icon.icon (the image text) and icon.title
    timers,            \* running _restore threads: the `original` each will write back
    original,          \* per thread: local `original` of flash_tray_title
    \* ---- microphone endpoints (safe_toggle_mic) ----
    mute,              \* per capture endpoint: its mute flag (0 / 1)
    micLog,            \* records of the safe_toggle_mic calls made
    \* ---- ActionWorker.stop() called by a client ----
    spc,               \* position inside that stop() call
    stops              \* stop() calls that have returned

modeVars == <<media_mode, hotkey_handles, registered, nextHandle, tpc, targ,
              tlist, tnew, tret, toggles, started, app>>
workerVars == <<q, _stop, _bright_pending, wpc, cur, wdelta, device, cbpc>>
brightVars == <<BRIGHT_METHOD_LAST, lastCall>>
obsVars == <<presses, enqLog, execLog, flashLog, winAdded, accAdded,
             unflushed>>
notifVars == <<icon, timers, original>>
micVars == <<mute, micLog>>
stopVars == <<spc, stops>>
\* the Notifier, the microphone endpoints and the direct stop() caller
sideVars == <<notifVars, micVars, stopVars>>
vars == <<modeVars, workerVars, brightVars, obsVars, sideVars>>

(***************************************************************************)
(* Bounds of the model.                                                    *)
(***************************************************************************)
MaxPress == 2      \* producer calls (hotkey callbacks, enqueue) in one behaviour
MaxToggles == 2    \* on_numlock_toggle calls started in one behaviour
MaxStops == 2      \* direct ActionWorker.stop() calls in one behaviour
MaxMic == 2        \* safe_toggle_mic calls in one behaviour

None == "None"

(***************************************************************************)
(* Brightness cascade: pure helpers.                                       *)
(***************************************************************************)
Min2(a, b) == IF a <= b THEN a ELSE b
Max2(a, b) == IF a >= b THEN a ELSE b

\* clamp(val, lo=0, hi=100) == max(lo, min(hi, val))
clamp(val, lo, hi) == Max2(lo, Min2(hi, val))

RECURSIVE SeqSum(_)
SeqSum(s) == IF s = <<>> THEN 0 ELSE Head(s) + SeqSum(Tail(s))

\* Python 3 round(): nearest integer, ties to the even one (num/den, den > 0)
PyRound(num, den) ==
    LET fl == num \div den
        r2 == 2 * (num % den)
    IN  IF r2 < den THEN fl
        ELSE IF r2 > den THEN fl + 1
        ELSE IF fl % 2 = 0 THEN fl ELSE fl + 1

\* _avg(nums): None (here <<>>) for an empty list, else <<int(round(sum / len))>>
_avg(nums) ==
    IF nums = <<>> THEN <<>> ELSE <<PyRound(SeqSum(nums), Len(nums))>>

(***************************************************************************)
(* The environment of one safe_change_brightness call: what                *)
(* sbc.list_monitors, sbc.get_brightness, sbc.set_brightness and the       *)
(* PowerShell commands answer during that call.                            *)
(***************************************************************************)
Displays == {"Integrated Panel", "HDMI Monitor"}
\* names m with any(k in m.lower() for k in ("integrated","internal","built-in","edp"))
InternalNames == {"Integrated Panel"}
IsInternal(m) == m \in InternalNames

BrightVals == {0, 95}

\* _list_monitors_safe(): the enumerated names, [] when enumeration raises
MonitorLists == {<<>>, <<"Integrated Panel">>, <<"HDMI Monitor">>,
                 <<"Integrated Panel", "HDMI Monitor">>,
                 <<"HDMI Monitor", "Integrated Panel">>}

\* what sbc.get_brightness answers: raises, an int, or a list (maybe empty)
ReadResults ==
    {[kind |-> "exc", vals |-> <<>>], [kind |-> "list", vals |-> <<>>],
     [kind |-> "int", vals |-> <<0>>], [kind |-> "list", vals |-> <<95>>],
     [kind |-> "int", vals |-> <<120>>]}

\* curr if isinstance(curr, int) else (curr[0] if curr else None)
FirstVal(rd) ==
    IF rd.kind = "int" THEN rd.vals
    ELSE IF rd.kind = "list" /\ rd.vals # <<>> THEN <<rd.vals[1]>>
    ELSE <<>>

WmiOutcomes ==
    {o \in [rd : ReadResults, set : BOOLEAN] : FirstVal(o.rd) = <<>> => ~o.set}
GenOutcomes ==
    {o \in [set : BOOLEAN, post : ReadResults] : ~o.set => o.post.kind = "exc"}
PsOutcomes ==
    {o \in [cur : {<<>>} \cup {<<v>> : v \in BrightVals}, set : BOOLEAN] :
        o.cur = <<>> => ~o.set}

Envs == [monitors : MonitorLists, wmi : [Displays -> WmiOutcomes],
         gen : [Displays -> GenOutcomes], ps : PsOutcomes]

\* internal = [m for m in monitors if <name heuristic>]
RECURSIVE FilterInternal(_)
FilterInternal(ms) ==
    IF ms = <<>> THEN <<>>
    ELSE IF IsInternal(Head(ms)) THEN <<Head(ms)>> \o FilterInternal(Tail(ms))
    ELSE FilterInternal(Tail(ms))

\* targets = internal if internal else monitors
Targets(monitors) ==
    LET internal == FilterInternal(monitors)
    IN  IF internal # <<>> THEN internal ELSE monitors

\* try_wmi_targets(): acc is [ok, results, writes]
RECURSIVE WmiLoop(_, _, _, _)
WmiLoop(ts, env, delta, acc) ==
    IF ts = <<>> THEN acc
    ELSE LET m == Head(ts)
             o == env.wmi[m]
             curr_val == FirstVal(o.rd)
             new_val == clamp(curr_val[1] + delta, 0, 100)
         IN  IF o.rd.kind # "exc" /\ curr_val # <<>> /\ o.set
             THEN WmiLoop(Tail(ts), env, delta,
                      [ok |-> TRUE,
                       results |-> Append(acc.results, new_val),
                       writes |-> Append(acc.writes,
                           [method |-> "wmi", display |-> m, abs |-> TRUE,
                            read |-> curr_val, val |-> new_val])])
             ELSE WmiLoop(Tail(ts), env, delta, acc)

try_wmi_targets(env, delta, results) ==
    WmiLoop(Targets(env.monitors), env, delta,
            [ok |-> FALSE, results |-> results, writes |-> <<>>])

\* try_generic_all(): relative write of f"{'+' if delta>0 else ''}{delta}"
RECURSIVE GenLoop(_, _, _, _)
GenLoop(ms, env, delta, acc) ==
    IF ms = <<>> THEN acc
    ELSE LET m == Head(ms)
             o == env.gen[m]
             post_val == FirstVal(o.post)
             w == [method |-> "generic", display |-> m, abs |-> FALSE,
                   read |-> <<>>, val |-> delta]
         IN  IF o.set
             THEN GenLoop(Tail(ms), env, delta,
                      [ok |-> TRUE,
                       results |-> IF post_val # <<>>
                                   THEN Append(acc.results, post_val[1])
                                   ELSE acc.results,
                       writes |-> Append(acc.writes, w)])
             ELSE GenLoop(Tail(ms), env, delta, acc)

try_generic_all(env, delta, results) ==
    GenLoop(env.monitors, env, delta,
            [ok |-> FALSE, results |-> results, writes |-> <<>>])

\* try_ps(): _ps_get_brightness, then _ps_set_brightness(clamp(cur + delta))
try_ps(env, delta, results) ==
    IF env.ps.cur = <<>>
    THEN [ok |-> FALSE, results |-> results, writes |-> <<>>]
    ELSE LET new_val == clamp(env.ps.cur[1] + delta, 0, 100)
         IN  IF env.ps.set
             THEN [ok |-> TRUE, results |-> Append(results, new_val),
                   writes |-> <<[method |-> "ps", display |-> "all",
                                 abs |-> TRUE, read |-> env.ps.cur,
                                 val |-> clamp(new_val, 0, 100)]>>]
             ELSE [ok |-> FALSE, results |-> results, writes |-> <<>>]

Priority == <<"wmi", "generic", "ps">>

\* methods = [BRIGHT_METHOD_LAST] if set, then wmi, generic, ps not yet in it
RECURSIVE AppendMissing(_, _)
AppendMissing(methods, rest) ==
    IF rest = <<>> THEN methods
    ELSE IF \E i \in 1..Len(methods) : methods[i] = Head(rest)
         THEN AppendMissing(methods, Tail(rest))
         ELSE AppendMissing(Append(methods, Head(rest)), Tail(rest))

\* variant: the cached backend is not put first
AttemptOrderFixed(cache) == Priority

AttemptOrder(cache) ==
    AppendMissing(IF cache # None THEN <<cache>> ELSE <<>>, Priority)

TryMethod(method, env, delta, results) ==
    IF method = "wmi" THEN try_wmi_targets(env, delta, results)
    ELSE IF method = "generic" THEN try_generic_all(env, delta, results)
    ELSE try_ps(env, delta, results)

\* for method in methods: ...; if ok: BRIGHT_METHOD_LAST = method; break
RECURSIVE AttemptLoop(_, _, _, _)
AttemptLoop(methods, env, delta, st) ==
    IF methods = <<>> THEN st
    ELSE LET r == TryMethod(Head(methods), env, delta, st.results)
             tried == Append(st.tried, Head(methods))
         IN  IF r.ok
             THEN [cache |-> Head(methods), changed |-> TRUE, tried |-> tried,
                   results |-> r.results, writes |-> st.writes \o r.writes]
             ELSE AttemptLoop(Tail(methods), env, delta,
                      [st EXCEPT !.tried = tried])

\* the feedback branch: the message passed to flash_tray_title
Feedback(changed, results, delta) ==
    IF changed
    THEN IF _avg(results) # <<>>
         THEN [msg |-> "Brightness: %", val |-> _avg(results)[1]]
         ELSE [msg |-> IF delta > 0 THEN "Brightness: adjusted (+)"
                       ELSE "Brightness: adjusted ()", val |-> delta]
    ELSE [msg |-> "Brightness: not supported", val |-> 0]

\* variant: only the first winner is cached, a cached value is never overwritten
safe_change_brightness_keep(delta, cache, env) ==
    LET st == AttemptLoop(AttemptOrder(cache), env, delta,
                  [cache |-> cache, changed |-> FALSE, tried |-> <<>>,
                   results |-> <<>>, writes |-> <<>>])
    IN  [cache |-> IF cache # None THEN cache ELSE st.cache,
         changed |-> st.changed, tried |-> st.tried,
         results |-> st.results, writes |-> st.writes,
         flash |-> Feedback(st.changed, st.results, delta)]

\* variant: a call in which every backend fails drops the cached backend
safe_change_brightness_forget(delta, cache, env) ==
    LET st == AttemptLoop(AttemptOrder(cache), env, delta,
                  [cache |-> cache, changed |-> FALSE, tried |-> <<>>,
                   results |-> <<>>, writes |-> <<>>])
    IN  [cache |-> IF st.changed THEN st.cache ELSE None,
         changed |-> st.changed, tried |-> st.tried,
         results |-> st.results, writes |-> st.writes,
         flash |-> Feedback(st.changed, st.results, delta)]

\* safe_change_brightness(delta, icon) up to its flash_tray_title call
safe_change_brightness(delta, cache, env) ==
    LET st == AttemptLoop(AttemptOrder(cache), env, delta,
                  [cache |-> cache, changed |-> FALSE, tried |-> <<>>,
                   results |-> <<>>, writes |-> <<>>])
    IN  [cache |-> st.cache, changed |-> st.changed, tried |-> st.tried,
         results |-> st.results, writes |-> st.writes,
         flash |-> Feedback(st.changed, st.results, delta)]

\* the backends that accept a write in environment env
Works(env, delta) ==
    {m \in {"wmi", "generic", "ps"} : TryMethod(m, env, delta, <<>>).ok}

\* what is observed of one call: its arguments, its outcome, the backends that work
CallRecord(delta, cache, env, r) ==
    [prev |-> cache, delta |-> delta, monitors |-> env.monitors,
     works |-> Works(env, delta), cache |-> r.cache, changed |-> r.changed,
     tried |-> r.tried, results |-> r.results, writes |-> r.writes,
     flash |-> r.flash]

NoCall == [prev |-> None, delta |-> 0, monitors |-> <<>>, works |-> {},
           cache |-> None, changed |-> FALSE, tried |-> <<>>,
           results |-> <<>>, writes |-> <<>>, flash |-> [msg |-> "", val |-> 0]]

\* net deltas the worker can hand over: sums of the +-10 steps of F5/F6
Deltas == {-10, 10}

(***************************************************************************)
(* A worker that is handed brightness flushes only: each step is one       *)
(* complete safe_change_brightness call in some environment.               *)
(***************************************************************************)
Adjust(delta, env) ==
    /\ lastCall = NoCall
    /\ LET r == safe_change_brightness(delta, BRIGHT_METHOD_LAST, env)
       IN  /\ BRIGHT_METHOD_LAST' = r.cache
           /\ lastCall' = CallRecord(delta, BRIGHT_METHOD_LAST, env, r)
    /\ UNCHANGED <<modeVars, workerVars, obsVars, sideVars>>

\* the call returns to ActionWorker._loop
Returned ==
    /\ lastCall # NoCall
    /\ lastCall' = NoCall
    /\ UNCHANGED <<modeVars, workerVars, BRIGHT_METHOD_LAST, obsVars,
                   sideVars>>

(***************************************************************************)
(* Notifier: the tray icon's image and title.  A title is its mode label  *)
(* followed by the flash messages appended to it.                          *)
(***************************************************************************)
\* f"FnLock: {'Media' if state.media_mode else 'Normal'} mode"
Title(media) ==
    [label |-> IF media THEN "Media" ELSE "Normal", flashes |-> <<>>]

\* make_icon("FN" if not state.media_mode else "AU")
IconText(media) == IF ~media THEN "FN" ELSE "AU"

\* f"{original} • {msg}"
Flashed(orig, msg) ==
    [label |-> orig.label, flashes |-> Append(orig.flashes, msg)]

(***************************************************************************)
(* Microphone toggle.  The environment of one safe_toggle_mic call: which  *)
(* roles resolve to an endpoint, whether GetMute and SetMute succeed, what *)
(* the WM_APPCOMMAND call does, and what flash_tray_title does.            *)
(***************************************************************************)
\* microphone capture endpoints, by the role that resolves them
Endpoints == {"console", "communications"}

MicEnvs ==
    [console : BOOLEAN, comm : BOOLEAN, get : BOOLEAN, set : BOOLEAN,
     cmd : {"exc", "ignored", "handled"},
     flash : {"ok", "raises_once", "raises"}]

\* variant: the toggle always mutes
NewStateMute(is_muted) == 1

\* new_state = 0 if is_muted else 1
NewState(is_muted) == IF is_muted # 0 THEN 0 ELSE 1

\* "unmuted" if new_state == 0 else "muted"
StatusOf(new_state) == IF new_state = 0 THEN "unmuted" ELSE "muted"

\* the roles _get_default_capture_endpoint_volume is called with
RolesTried(env) ==
    IF env.console THEN <<"console">> ELSE <<"console", "communications">>

\* vol after the two resolution attempts
Resolved(env) ==
    IF env.console THEN "console"
    ELSE IF env.comm THEN "communications" ELSE None

\* the outcome of a call: mt is the mute flag of every endpoint before it
MicOutcome(mt, env, tried, vol, direct, cmd) ==
    LET new_state == NewState(mt[vol])
        status == IF direct THEN StatusOf(new_state)
                  ELSE IF cmd # "exc" THEN "toggled" ELSE "error"
        after == IF direct THEN [mt EXCEPT ![vol] = new_state]
                 ELSE IF cmd = "handled"
                      THEN [mt EXCEPT !["console"] = 1 - mt["console"]]
                 ELSE mt
    IN  [env |-> env, before |-> mt, after |-> after, tried |-> tried,
         vol |-> vol,
         read |-> IF vol # None /\ env.get THEN <<mt[vol]>> ELSE <<>>,
         wrote |-> IF direct THEN <<new_state>> ELSE <<>>,
         cmd |-> cmd,
         reports |-> IF env.flash = "ok" THEN <<status>>
                     ELSE <<status, "error">>,
         raised |-> env.flash = "raises"]

\* variant: the WM_APPCOMMAND fallback is sent after a direct toggle too
safe_toggle_mic_resend(mt, env) ==
    LET vol == Resolved(env)
        direct == vol # None /\ env.get /\ env.set
    IN  MicOutcome(mt, env, RolesTried(env), vol, direct, env.cmd)

\* safe_toggle_mic(icon)
safe_toggle_mic(mt, env) ==
    LET vol == Resolved(env)
        direct == vol # None /\ env.get /\ env.set
    IN  MicOutcome(mt, env, RolesTried(env), vol, direct,
                   IF direct THEN "none" ELSE env.cmd)

\* one complete safe_toggle_mic call
MicToggle(env) ==
    /\ Len(micLog) < MaxMic
    /\ LET r == safe_toggle_mic(mute, env)
       IN  /\ mute' = r.after
           /\ micLog' = Append(micLog, r)
    /\ UNCHANGED <<modeVars, workerVars, brightVars, obsVars, notifVars,
                   stopVars>>

(***************************************************************************)
(* Mode switch and hotkey bindings.  Two threads run on_numlock_toggle:    *)
(* the keyboard listener ("hook", the Num Lock hotkey) and the tray menu   *)
(* thread ("tray", the Toggle and Quit items).                             *)
(***************************************************************************)
Threads == {"hook", "tray"}
KeySeq == <<"f1", "f2", "f3", "f4", "f5", "f6">>
Keys == {KeySeq[i] : i \in 1..Len(KeySeq)}

\* stop() has returned in quit_action
StopReturned ==
    \/ app = "exited"
    \/ tpc["tray"] \in {"after_stop", "unhook"}
    \/ tpc["tray"] \in {"ub_check", "ub_iter", "ub_remove"} /\ tret["tray"] = "quit"

\* on_numlock_toggle: evaluate `not state.media_mode`, call set_mode
T_Start(t) ==
    /\ app = "running" /\ tpc[t] = "idle" /\ started < MaxToggles
    /\ targ' = [targ EXCEPT ![t] = ~media_mode]
    /\ tpc' = [tpc EXCEPT ![t] = "set_mode"]
    /\ started' = started + 1
    /\ UNCHANGED <<media_mode, hotkey_handles, registered, nextHandle,
                   tlist, tnew, tret, toggles, app, workerVars, brightVars,
                   obsVars, sideVars>>

\* set_mode: state.media_mode = media
T_SetMode(t) ==
    /\ app = "running" /\ tpc[t] = "set_mode"
    /\ media_mode' = targ[t]
    /\ tpc' = [tpc EXCEPT ![t] = "branch"]
    /\ UNCHANGED <<hotkey_handles, registered, nextHandle, targ, tlist,
                   tnew, tret, toggles, started, app, workerVars,
                   brightVars, obsVars, sideVars>>

\* set_mode: if state.media_mode: bind_media_hotkeys() else unbind_media_hotkeys();
\* bind_media_hotkeys starts with unbind_media_hotkeys()
T_Branch(t) ==
    /\ app = "running" /\ tpc[t] = "branch"
    /\ tret' = [tret EXCEPT ![t] = IF media_mode THEN "bind" ELSE "set_mode"]
    /\ tpc' = [tpc EXCEPT ![t] = "ub_check"]
    /\ UNCHANGED <<media_mode, hotkey_handles, registered, nextHandle, targ,
                   tlist, tnew, toggles, started, app, workerVars,
                   brightVars, obsVars, sideVars>>

\* where unbind_media_hotkeys returns to
AfterUnbind(t) ==
    IF tret[t] = "bind" THEN "add"
    ELSE IF tret[t] = "quit" THEN "unhook"
    ELSE "finish"

\* unbind_media_hotkeys: if state.hotkey_handles:
U_Check(t) ==
    /\ app = "running" /\ tpc[t] = "ub_check"
    /\ tpc' = [tpc EXCEPT ![t] = IF hotkey_handles # <<>> THEN "ub_iter"
                                  ELSE AfterUnbind(t)]
    /\ tnew' = [tnew EXCEPT ![t] = <<>>]
    /\ UNCHANGED <<media_mode, hotkey_handles, registered, nextHandle, targ,
                   tlist, tret, toggles, started, app, workerVars,
                   brightVars, obsVars, sideVars>>

\* unbind_media_hotkeys: for h in state.hotkey_handles (the list read here)
U_Iter(t) ==
    /\ app = "running" /\ tpc[t] = "ub_iter"
    /\ tlist' = [tlist EXCEPT ![t] = hotkey_handles]
    /\ tpc' = [tpc EXCEPT ![t] = "ub_remove"]
    /\ UNCHANGED <<media_mode, hotkey_handles, registered, nextHandle, targ,
                   tnew, tret, toggles, started, app, workerVars,
                   brightVars, obsVars, sideVars>>

\* keyboard.remove_hotkey(h); a KeyError (h no longer registered) is passed over
U_Remove(t) ==
    /\ app = "running" /\ tpc[t] = "ub_remove" /\ tlist[t] # <<>>
    /\ registered' = registered \ {Head(tlist[t])}
    /\ tlist' = [tlist EXCEPT ![t] = Tail(tlist[t])]
    /\ UNCHANGED <<media_mode, hotkey_handles, nextHandle, tpc, targ, tnew,
                   tret, toggles, started, app, workerVars, brightVars,
                   obsVars, sideVars>>

\* unbind_media_hotkeys: state.hotkey_handles = []
U_Clear(t) ==
    /\ app = "running" /\ tpc[t] = "ub_remove" /\ tlist[t] = <<>>
    /\ hotkey_handles' = <<>>
    /\ tpc' = [tpc EXCEPT ![t] = AfterUnbind(t)]
    /\ tnew' = [tnew EXCEPT ![t] = <<>>]
    /\ UNCHANGED <<media_mode, registered, nextHandle, targ, tlist, tret,
                   toggles, started, app, workerVars, brightVars, obsVars,
                   sideVars>>

\* bind_media_hotkeys: h_i = keyboard.add_hotkey(f_i, callback, suppress=True)
B_Add(t) ==
    /\ app = "running" /\ tpc[t] = "add" /\ Len(tnew[t]) < Len(KeySeq)
    /\ LET h == [key |-> KeySeq[Len(tnew[t]) + 1], id |-> nextHandle + 1]
       IN  /\ registered' = registered \cup {h}
           /\ tnew' = [tnew EXCEPT ![t] = Append(tnew[t], h)]
    /\ nextHandle' = nextHandle + 1
    /\ UNCHANGED <<media_mode, hotkey_handles, tpc, targ, tlist, tret,
                   toggles, started, app, workerVars, brightVars, obsVars,
                   sideVars>>

\* bind_media_hotkeys: state.hotkey_handles = [h1, h2, h3, h4, h5, h6]
B_Assign(t) ==
    /\ app = "running" /\ tpc[t] = "add" /\ Len(tnew[t]) = Len(KeySeq)
    /\ hotkey_handles' = tnew[t]
    /\ tpc' = [tpc EXCEPT ![t] = "finish"]
    /\ tnew' = [tnew EXCEPT ![t] = <<>>]
    /\ UNCHANGED <<media_mode, registered, nextHandle, targ, tlist, tret,
                   toggles, started, app, workerVars, brightVars, obsVars,
                   sideVars>>

\* flash_tray_title: original = icon.title
FlashRead(t) == original' = [original EXCEPT ![t] = icon.title]

\* flash_tray_title: icon.title = f"{original} • {msg}"; the _restore thread starts.
\* The local is dead afterwards.
FlashWrite(t, msg) ==
    /\ icon' = [icon EXCEPT !.title = Flashed(original[t], msg)]
    /\ timers' = timers (+) SetToBag({original[t]})
    /\ original' = [original EXCEPT ![t] = Title(FALSE)]

\* update_tray_icon: icon.icon = make_icon("FN" if not state.media_mode else "AU")
T_Icon(t) ==
    /\ app = "running" /\ tpc[t] = "finish"
    /\ icon' = [icon EXCEPT !.icon = IconText(media_mode)]
    /\ tpc' = [tpc EXCEPT ![t] = "title"]
    /\ UNCHANGED <<media_mode, hotkey_handles, registered, nextHandle, targ,
                   tlist, tnew, tret, toggles, started, app, workerVars,
                   brightVars, obsVars, timers, original, micVars, stopVars>>

\* update_tray_icon: icon.title = f"FnLock: {...} mode"
T_Title(t) ==
    /\ app = "running" /\ tpc[t] = "title"
    /\ icon' = [icon EXCEPT !.title = Title(media_mode)]
    /\ tpc' = [tpc EXCEPT ![t] = "flash_read"]
    /\ UNCHANGED <<media_mode, hotkey_handles, registered, nextHandle, targ,
                   tlist, tnew, tret, toggles, started, app, workerVars,
                   brightVars, obsVars, timers, original, micVars, stopVars>>

\* on_numlock_toggle: flash_tray_title(tray_icon, "Toggled"), first half
T_FlashRead(t) ==
    /\ app = "running" /\ tpc[t] = "flash_read"
    /\ FlashRead(t)
    /\ tpc' = [tpc EXCEPT ![t] = "flash_write"]
    /\ UNCHANGED <<media_mode, hotkey_handles, registered, nextHandle, targ,
                   tlist, tnew, tret, toggles, started, app, workerVars,
                   brightVars, obsVars, icon, timers, micVars, stopVars>>

\* on_numlock_toggle: flash_tray_title(tray_icon, "Toggled"), second half
T_FlashWrite(t) ==
    /\ app = "running" /\ tpc[t] = "flash_write"
    /\ FlashWrite(t, "Toggled")
    /\ tpc' = [tpc EXCEPT ![t] = "return"]
    /\ UNCHANGED <<media_mode, hotkey_handles, registered, nextHandle, targ,
                   tlist, tnew, tret, toggles, started, app, workerVars,
                   brightVars, obsVars, micVars, stopVars>>

\* _restore of some flash: time.sleep(duration) is over; icon.title = original
Restore ==
    /\ app = "running"
    /\ \E o \in BagToSet(timers) :
          /\ icon' = [icon EXCEPT !.title = o]
          /\ timers' = timers (-) SetToBag({o})
    /\ UNCHANGED <<modeVars, workerVars, brightVars, obsVars, original,
                   micVars, stopVars>>

\* on_numlock_toggle returns
T_Finish(t) ==
    /\ app = "running" /\ tpc[t] = "return"
    /\ tpc' = [tpc EXCEPT ![t] = "idle"]
    /\ toggles' = toggles + 1
    /\ UNCHANGED <<media_mode, hotkey_handles, registered, nextHandle, targ,
                   tlist, tnew, tret, started, app, workerVars, brightVars,
                   obsVars, sideVars>>

Toggle(t) ==
    \/ T_Start(t) \/ T_SetMode(t) \/ T_Branch(t) \/ U_Check(t) \/ U_Iter(t)
    \/ U_Remove(t) \/ U_Clear(t) \/ B_Add(t) \/ B_Assign(t) \/ T_Icon(t)
    \/ T_Title(t) \/ T_FlashRead(t) \/ T_FlashWrite(t) \/ T_Finish(t)

(***************************************************************************)
(* ActionWorker: producers.                                                *)
(***************************************************************************)
Item(a, d) == [action |-> a, data |-> d]
QuitItem == Item("__quit__", None)
\* the locals action, data of _loop hold nothing the loop still reads
NoItem == Item("", None)
FlushItem == Item("brightness_flush", None)

\* self.q.put(item): the queue is unbounded, put never blocks
Put(item) ==
    /\ q' = Append(q, item)
    /\ enqLog' = Append(enqLog, item)

\* ActionWorker.enqueue(action, data)
enqueue(action, data) == Put(Item(action, data))

\* the lambdas bound by bind_media_hotkeys to f1..f4
KeyAction(k) ==
    IF k = "f1" THEN Item("volume", "volume mute")
    ELSE IF k = "f2" THEN Item("volume", "volume down")
    ELSE IF k = "f3" THEN Item("volume", "volume up")
    ELSE Item("mic_toggle", None)

\* the deltas bound to f5 and f6
KeyDelta(k) == IF k = "f5" THEN -10 ELSE 10

Bound(k) == \E h \in registered : h.key = k

\* variant: the f1..f4 callback performs the device action itself
CallbackInline(k) ==
    /\ app = "running" /\ cbpc = "idle" /\ presses < MaxPress
    /\ k \in {"f1", "f2", "f3", "f4"} /\ Bound(k)
    /\ device' = [device EXCEPT !["callback"] =
                      IF KeyAction(k).action = "volume" THEN "volume" ELSE "mic"]
    /\ presses' = presses + 1
    /\ UNCHANGED <<modeVars, q, _stop, _bright_pending, wpc, cur, wdelta,
                   cbpc, brightVars, enqLog, execLog, flashLog, winAdded,
                   accAdded, unflushed, sideVars>>

\* a bound f1..f4 callback runs: WORKER.enqueue(...)
CallbackEnqueue(k) ==
    /\ app = "running" /\ cbpc = "idle" /\ presses < MaxPress
    /\ k \in {"f1", "f2", "f3", "f4"} /\ Bound(k)
    /\ enqueue(KeyAction(k).action, KeyAction(k).data)
    /\ presses' = presses + 1
    /\ UNCHANGED <<modeVars, _stop, _bright_pending, wpc, cur, wdelta,
                   device, cbpc, brightVars, execLog, flashLog, winAdded,
                   accAdded, unflushed, sideVars>>

\* variant: the accumulator is overwritten, not incremented
AddPendingLost(delta) == _bright_pending' = delta

\* add_brightness: with self._bright_lock: self._bright_pending += delta
AddPending(delta) == _bright_pending' = _bright_pending + delta

\* a bound f5/f6 callback runs WORKER.add_brightness(-10 / +10): first half
CallbackAdd(k) ==
    /\ app = "running" /\ cbpc = "idle" /\ presses < MaxPress
    /\ k \in {"f5", "f6"} /\ Bound(k)
    /\ AddPending(KeyDelta(k))
    /\ cbpc' = "put_flush"
    /\ presses' = presses + 1
    /\ winAdded' = winAdded + KeyDelta(k)
    /\ accAdded' = accAdded + KeyDelta(k)
    /\ unflushed' = unflushed + KeyDelta(k)
    /\ UNCHANGED <<modeVars, q, _stop, wpc, cur, wdelta, device, brightVars,
                   enqLog, execLog, flashLog, sideVars>>

\* add_brightness: self.q.put(("brightness_flush", None))
CallbackFlush ==
    /\ app = "running" /\ cbpc = "put_flush"
    /\ Put(FlushItem)
    /\ cbpc' = "idle"
    /\ UNCHANGED <<modeVars, _stop, _bright_pending, wpc, cur, wdelta,
                   device, brightVars, presses, execLog, flashLog, winAdded,
                   accAdded, unflushed, sideVars>>

\* a client calls WORKER.enqueue("flash", text) directly
FlashTexts == {"a", "b"}
EnqueueFlash(text) ==
    /\ app = "running" /\ presses < MaxPress
    /\ enqueue("flash", text)
    /\ presses' = presses + 1
    /\ UNCHANGED <<modeVars, _stop, _bright_pending, wpc, cur, wdelta,
                   device, cbpc, brightVars, execLog, flashLog, winAdded,
                   accAdded, unflushed, sideVars>>

(***************************************************************************)
(* quit_action on the tray thread: WORKER.stop(), then the teardown.       *)
(***************************************************************************)
\* the Quit menu item is clicked
Q_Start ==
    /\ app = "running" /\ tpc["tray"] = "idle"
    /\ tpc' = [tpc EXCEPT !["tray"] = "stop_set"]
    /\ UNCHANGED <<media_mode, hotkey_handles, registered, nextHandle, targ,
                   tlist, tnew, tret, toggles, started, app, workerVars,
                   brightVars, obsVars, sideVars>>

\* stop(): self._stop.set()
Q_StopSet ==
    /\ app = "running" /\ tpc["tray"] = "stop_set"
    /\ _stop' = TRUE
    /\ tpc' = [tpc EXCEPT !["tray"] = "stop_put"]
    /\ UNCHANGED <<media_mode, hotkey_handles, registered, nextHandle, targ,
                   tlist, tnew, tret, toggles, started, app, q,
                   _bright_pending, wpc, cur, wdelta, device, cbpc,
                   brightVars, obsVars, sideVars>>

\* stop(): self.q.put(("__quit__", None))
Q_StopPut ==
    /\ app = "running" /\ tpc["tray"] = "stop_put"
    /\ Put(QuitItem)
    /\ tpc' = [tpc EXCEPT !["tray"] = "stop_join"]
    /\ UNCHANGED <<media_mode, hotkey_handles, registered, nextHandle, targ,
                   tlist, tnew, tret, toggles, started, app, _stop,
                   _bright_pending, wpc, cur, wdelta, device, cbpc,
                   brightVars, presses, execLog, flashLog, winAdded,
                   accAdded, unflushed, sideVars>>

\* stop(): self.thread.join(timeout=0.8) returns: the thread ended, or 0.8 s passed
Q_Join ==
    /\ app = "running" /\ tpc["tray"] = "stop_join"
    /\ tpc' = [tpc EXCEPT !["tray"] = "after_stop"]
    /\ UNCHANGED <<media_mode, hotkey_handles, registered, nextHandle, targ,
                   tlist, tnew, tret, toggles, started, app, workerVars,
                   brightVars, obsVars, sideVars>>

\* quit_action: icon.visible = False; time.sleep(0.2); unbind_media_hotkeys()
Q_Unbind ==
    /\ app = "running" /\ tpc["tray"] = "after_stop"
    /\ tret' = [tret EXCEPT !["tray"] = "quit"]
    /\ tpc' = [tpc EXCEPT !["tray"] = "ub_check"]
    /\ UNCHANGED <<media_mode, hotkey_handles, registered, nextHandle, targ,
                   tlist, tnew, toggles, started, app, workerVars,
                   brightVars, obsVars, sideVars>>

\* quit_action: keyboard.unhook_all_hotkeys(); icon.stop() ends the process
Q_Exit ==
    /\ app = "running" /\ tpc["tray"] = "unhook"
    /\ registered' = {}
    /\ app' = "exited"
    /\ tpc' = [tpc EXCEPT !["tray"] = "idle"]
    /\ UNCHANGED <<media_mode, hotkey_handles, nextHandle, targ, tlist,
                   tnew, tret, toggles, started, workerVars, brightVars,
                   obsVars, sideVars>>

Quit == Q_Start \/ Q_StopSet \/ Q_StopPut \/ Q_Join \/ Q_Unbind \/ Q_Exit

(***************************************************************************)
(* ActionWorker.stop() called by a client of the class, any number of      *)
(* times.                                                                  *)
(***************************************************************************)
\* stop() is called
S_Start ==
    /\ app = "running" /\ spc = "idle" /\ stops < MaxStops
    /\ spc' = "stop_set"
    /\ UNCHANGED <<modeVars, workerVars, brightVars, obsVars, notifVars,
                   micVars, stops>>

\* self._stop.set()
S_Set ==
    /\ app = "running" /\ spc = "stop_set"
    /\ _stop' = TRUE
    /\ spc' = "stop_put"
    /\ UNCHANGED <<modeVars, q, _bright_pending, wpc, cur, wdelta, device,
                   cbpc, brightVars, obsVars, notifVars, micVars, stops>>

\* self.q.put(("__quit__", None))
S_Put ==
    /\ app = "running" /\ spc = "stop_put"
    /\ Put(QuitItem)
    /\ spc' = "stop_join"
    /\ UNCHANGED <<modeVars, _stop, _bright_pending, wpc, cur, wdelta,
                   device, cbpc, brightVars, presses, execLog, flashLog,
                   winAdded, accAdded, unflushed, notifVars, micVars, stops>>

\* self.thread.join(timeout=0.8) returns (at once when the thread has ended)
S_Join ==
    /\ app = "running" /\ spc = "stop_join"
    /\ spc' = "idle"
    /\ stops' = stops + 1
    /\ UNCHANGED <<modeVars, workerVars, brightVars, obsVars, notifVars,
                   micVars>>

StopCall == S_Start \/ S_Set \/ S_Put \/ S_Join

(***************************************************************************)
(* ActionWorker._loop: the single consumer thread.                         *)
(***************************************************************************)
\* the device operation an action performs when it is run
DeviceOf(item) ==
    IF item.action = "volume" THEN "volume"
    ELSE IF item.action = "mic_toggle" THEN "mic"
    ELSE "none"

\* environments a flush of the running worker is checked in: one internal
\* display, each backend either working or failing
ExcRead == [kind |-> "exc", vals |-> <<>>]
WorkerEnv(wmiOK, genOK, psOK) ==
    [monitors |-> <<"Integrated Panel">>,
     wmi |-> [d \in Displays |->
                 IF wmiOK /\ d = "Integrated Panel"
                 THEN [rd |-> [kind |-> "int", vals |-> <<95>>], set |-> TRUE]
                 ELSE [rd |-> ExcRead, set |-> FALSE]],
     gen |-> [d \in Displays |->
                 IF genOK /\ d = "Integrated Panel"
                 THEN [set |-> TRUE, post |-> [kind |-> "list", vals |-> <<>>]]
                 ELSE [set |-> FALSE, post |-> ExcRead]],
     ps |-> IF psOK THEN [cur |-> <<0>>, set |-> TRUE]
            ELSE [cur |-> <<>>, set |-> FALSE]]
WorkerEnvs ==
    {WorkerEnv(w, g, p) : w \in BOOLEAN, g \in BOOLEAN, p \in BOOLEAN}

\* while not self._stop.is_set():
W_Loop ==
    /\ app = "running" /\ wpc = "loop"
    /\ wpc' = IF _stop THEN "done" ELSE "get"
    /\ UNCHANGED <<modeVars, q, _stop, _bright_pending, cur, wdelta, device,
                   cbpc, brightVars, obsVars, sideVars>>

\* variant: the newest item is handed out first
DequeueNewest(queue) ==
    [item |-> queue[Len(queue)], rest |-> SubSeq(queue, 1, Len(queue) - 1)]

\* the item self.q.get() hands out, and the queue it leaves
Dequeue(queue) == [item |-> Head(queue), rest |-> Tail(queue)]

\* self.q.get(timeout=0.5) raises Empty: continue
W_Empty ==
    /\ app = "running" /\ wpc = "get" /\ q = <<>>
    /\ wpc' = "loop"
    /\ UNCHANGED <<modeVars, q, _stop, _bright_pending, cur, wdelta, device,
                   cbpc, brightVars, obsVars, sideVars>>

\* variant: the __quit__ marker is dropped and the loop goes on
W_GetQuitSkip ==
    /\ app = "running" /\ wpc = "get" /\ q # <<>>
    /\ Dequeue(q).item.action = "__quit__"
    /\ q' = Dequeue(q).rest
    /\ wpc' = "loop"
    /\ UNCHANGED <<modeVars, _stop, _bright_pending, cur, wdelta, device,
                   cbpc, brightVars, obsVars, sideVars>>

\* action, data = self.q.get(timeout=0.5); if action == "__quit__": break
W_GetQuit ==
    /\ app = "running" /\ wpc = "get" /\ q # <<>>
    /\ Dequeue(q).item.action = "__quit__"
    /\ q' = Dequeue(q).rest
    /\ wpc' = "done"
    /\ UNCHANGED <<modeVars, _stop, _bright_pending, cur, wdelta, device,
                   cbpc, brightVars, obsVars, sideVars>>

\* action, data = self.q.get(timeout=0.5); the action starts executing
W_Get ==
    /\ app = "running" /\ wpc = "get" /\ q # <<>>
    /\ Dequeue(q).item.action # "__quit__"
    /\ q' = Dequeue(q).rest
    /\ cur' = Dequeue(q).item
    /\ execLog' = Append(execLog, Dequeue(q).item)
    /\ wpc' = IF Dequeue(q).item.action = "brightness_flush" THEN "debounce"
              ELSE "run"
    /\ device' = [device EXCEPT !["worker"] = DeviceOf(Dequeue(q).item)]
    /\ winAdded' = IF Dequeue(q).item.action = "brightness_flush" THEN 0
                   ELSE winAdded
    /\ UNCHANGED <<modeVars, _stop, _bright_pending, wdelta, cbpc,
                   brightVars, presses, enqLog, flashLog, accAdded,
                   unflushed, sideVars>>

\* variant: the accumulator is read but not reset
ReadNoZero == [delta |-> _bright_pending, pending |-> _bright_pending]

\* with self._bright_lock: delta = self._bright_pending; self._bright_pending = 0
ReadAndZero == [delta |-> _bright_pending, pending |-> 0]

\* variant: the flush calls safe_change_brightness whatever the delta is
CallNeededAlways(delta) == TRUE

\* if delta != 0:
CallNeeded(delta) == delta # 0

\* brightness_flush: time.sleep(0.12) is over; read and zero; if delta != 0: ...
W_Flush ==
    /\ app = "running" /\ wpc = "debounce"
    /\ wdelta' = ReadAndZero.delta
    /\ _bright_pending' = ReadAndZero.pending
    /\ wpc' = IF CallNeeded(ReadAndZero.delta) THEN "bright" ELSE "loop"
    /\ device' = [device EXCEPT !["worker"] =
                      IF CallNeeded(ReadAndZero.delta) THEN "brightness"
                      ELSE "none"]
    /\ accAdded' = 0
    /\ unflushed' = IF CallNeeded(ReadAndZero.delta)
                    THEN unflushed - ReadAndZero.delta ELSE unflushed
    /\ cur' = NoItem
    /\ UNCHANGED <<modeVars, q, _stop, cbpc, brightVars, presses, enqLog,
                   execLog, flashLog, winAdded, sideVars>>

\* variant: no try/except around the action, an exception ends the thread
AfterActionUncaught(raised) == IF raised THEN "done" ELSE "loop"

\* where the worker goes when the action returned (ok) or raised
AfterAction(raised) == IF raised THEN "handler" ELSE "loop"

\* safe_change_brightness(delta, self.icon); its flash_tray_title may raise
W_Bright ==
    /\ app = "running" /\ wpc = "bright"
    /\ \E env \in WorkerEnvs, raised \in BOOLEAN :
          LET r == safe_change_brightness(wdelta, BRIGHT_METHOD_LAST, env)
          IN  /\ BRIGHT_METHOD_LAST' = r.cache
              /\ flashLog' = r.flash
              /\ wpc' = AfterAction(raised)
    /\ device' = [device EXCEPT !["worker"] = "none"]
    /\ wdelta' = 0
    /\ UNCHANGED <<modeVars, q, _stop, _bright_pending, cur, cbpc, lastCall,
                   presses, enqLog, execLog, winAdded, accAdded, unflushed,
                   sideVars>>

\* mic_toggle / volume / flash branches: the call returns or raises
W_Run ==
    /\ app = "running" /\ wpc = "run"
    /\ \E raised \in BOOLEAN :
          /\ wpc' = AfterAction(raised)
    /\ flashLog' = IF cur.action = "volume" THEN flashLog
                   ELSE IF cur.action = "mic_toggle"
                        THEN [msg |-> "Mic", val |-> 0]
                   ELSE [msg |-> cur.data, val |-> 0]
    /\ device' = [device EXCEPT !["worker"] = "none"]
    /\ cur' = NoItem
    /\ UNCHANGED <<modeVars, q, _stop, _bright_pending, wdelta, cbpc,
                   brightVars, presses, enqLog, execLog, winAdded, accAdded,
                   unflushed, sideVars>>

\* except Exception: try: flash_tray_title(self.icon, "Action error") except: pass
W_Handler ==
    /\ app = "running" /\ wpc = "handler"
    /\ flashLog' = [msg |-> "Action error", val |-> 0]
    /\ wpc' = "loop"
    /\ UNCHANGED <<modeVars, q, _stop, _bright_pending, cur, wdelta, device,
                   cbpc, brightVars, presses, enqLog, execLog, winAdded,
                   accAdded, unflushed, sideVars>>

\* the worker thread inside flash_tray_title(self.icon, msg), called by an
\* action of _loop or by its except handler: original = icon.title
WorkerFlashRead(msg) ==
    /\ app = "running" /\ wpc = "loop" /\ presses < MaxPress
    /\ FlashRead("worker")
    /\ flashLog' = [msg |-> msg, val |-> 0]
    /\ wpc' = "flash_write"
    /\ presses' = presses + 1
    /\ UNCHANGED <<modeVars, q, _stop, _bright_pending, cur, wdelta, device,
                   cbpc, brightVars, enqLog, execLog, winAdded, accAdded,
                   unflushed, icon, timers, micVars, stopVars>>

\* ... icon.title = f"{original} • {msg}"; the _restore thread starts
WorkerFlashWrite ==
    /\ app = "running" /\ wpc = "flash_write"
    /\ FlashWrite("worker", flashLog.msg)
    /\ wpc' = "loop"
    /\ UNCHANGED <<modeVars, q, _stop, _bright_pending, cur, wdelta, device,
                   cbpc, brightVars, obsVars, micVars, stopVars>>

\* messages the worker flashes
WorkerMsgs == {"Mic: muted"}
WorkerFlash == (\E msg \in WorkerMsgs : WorkerFlashRead(msg)) \/ WorkerFlashWrite

Worker ==
    \/ W_Loop \/ W_Empty \/ W_GetQuit \/ W_Get \/ W_Flush \/ W_Bright
    \/ W_Run \/ W_Handler

\* the callbacks of the keys in K
CallbackOf(K) ==
    \/ \E k \in K : CallbackEnqueue(k)
    \/ \E k \in K : CallbackAdd(k)
    \/ CallbackFlush

Callback == CallbackOf(Keys)

Unbind(t) == U_Check(t) \/ U_Iter(t) \/ U_Remove(t) \/ U_Clear(t)

(***************************************************************************)
(* Initial states and specifications.                                      *)
(***************************************************************************)
\* run_tray: WORKER = ActionWorker(icon); WORKER.start(); set_mode(False, icon)
InitCommon ==
    /\ tpc = [t \in Threads |-> "idle"]
    /\ targ = [t \in Threads |-> FALSE]
    /\ tlist = [t \in Threads |-> <<>>]
    /\ tnew = [t \in Threads |-> <<>>]
    /\ tret = [t \in Threads |-> "set_mode"]
    /\ app = "running"
    /\ q = <<>> /\ _stop = FALSE /\ _bright_pending = 0
    /\ wpc = "loop" /\ cur = NoItem /\ wdelta = 0
    /\ device = [w \in {"worker", "callback"} |-> "none"]
    /\ cbpc = "idle"
    /\ BRIGHT_METHOD_LAST = None /\ lastCall = NoCall
    /\ presses = 0 /\ enqLog = <<>> /\ execLog = <<>>
    /\ flashLog = [msg |-> "", val |-> 0]
    /\ winAdded = 0 /\ accAdded = 0 /\ unflushed = 0
    /\ timers = EmptyBag
    /\ original = [t \in Threads \cup {"worker"} |-> Title(FALSE)]
    /\ mute = [e \in Endpoints |-> 0] /\ micLog = <<>>
    /\ spc = "idle" /\ stops = 0

\* state = ModeState(media_mode=False, hotkey_handles=[]); update_tray_icon(icon)
Init ==
    /\ InitCommon
    /\ icon = [icon |-> "FN", title |-> Title(FALSE)]
    /\ media_mode = FALSE /\ hotkey_handles = <<>> /\ registered = {}
    /\ nextHandle = 0 /\ toggles = 0 /\ started = 0

\* the state after the first completed toggle: Media mode, f1..f6 bound
FirstBatch == [i \in 1..Len(KeySeq) |-> [key |-> KeySeq[i], id |-> i]]
InitMedia ==
    /\ InitCommon
    /\ icon = [icon |-> "AU", title |-> Title(TRUE)]
    /\ media_mode = TRUE /\ hotkey_handles = FirstBatch
    /\ registered = {FirstBatch[i] : i \in 1..Len(KeySeq)}
    /\ nextHandle = Len(KeySeq) /\ toggles = 1 /\ started = 1

\* the whole program
Next ==
    \/ \E t \in Threads : Toggle(t)
    \/ Restore
    \/ Quit
    \/ Callback
    \/ Worker
Spec == Init /\ [][Next]_vars

\* the mode switch alone: toggles from both threads, no key presses
NextMode == (\E t \in Threads : Toggle(t)) \/ Restore
SpecMode == Init /\ [][NextMode]_vars

\* the microphone toggle alone
NextMic == \E env \in MicEnvs : MicToggle(env)
SpecMic == Init /\ [][NextMic]_vars

\* the Notifier: toggles from the keyboard listener, flashes of the worker,
\* and the restore timers of both
NextNotif == Toggle("hook") \/ WorkerFlash \/ Restore
SpecNotif == Init /\ [][NextNotif]_vars

\* the worker with its producers and quit_action, in Media mode
NextWorker == Callback \/ Worker \/ Quit \/ Unbind("tray")
SpecWorker == InitMedia /\ [][NextWorker]_vars

\* the same for presses of one enqueueing key and the two brightness keys,
\* with the worker thread and a callback inside add_brightness always
\* scheduled again
FairKeys == {"f1", "f5", "f6"}
NextWorkerFair == CallbackOf(FairKeys) \/ Worker \/ Quit \/ Unbind("tray")
SpecWorkerFair ==
    InitMedia /\ [][NextWorkerFair]_vars
    /\ WF_vars(Worker) /\ WF_vars(CallbackFlush)

\* the worker with its producers and a client that calls stop() directly
NextStop == Callback \/ Worker \/ StopCall
SpecStop == InitMedia /\ [][NextStop]_vars

\* the worker, also fed through a direct enqueue("flash", text)
NextApi == NextWorker \/ \E text \in FlashTexts : EnqueueFlash(text)
SpecApi == InitMedia /\ [][NextApi]_vars

\* the brightness cascade alone
NextBright == (\E delta \in Deltas, env \in Envs : Adjust(delta, env)) \/ Returned
SpecBright == Init /\ [][NextBright]_vars

(***************************************************************************)
(* Properties.                                                             *)
(***************************************************************************)
\* a producer step: a hotkey callback (or a direct enqueue) runs one of its halves
ProducerStep == presses' # presses \/ cbpc' # cbpc

\* C1: a producer call (enqueue, add_brightness) made once stop() has set the
\* stop flag is a no-op: it leaves the queue and the accumulator as they were.
C1_EnqueueAfterStopIsNoop ==
    [][(_stop /\ ProducerStep) =>
          (q' = q /\ _bright_pending' = _bright_pending)]_vars

\* the worker starts executing an action it has just dequeued
StartsAction == wpc = "get" /\ wpc' \in {"run", "debounce"}

\* C2: once stop() has returned (its join ended or timed out) the worker
\* starts executing no further action.
C2_NoStartAfterStopReturned == [][StopReturned => ~StartsAction]_vars

ErrorFlash == [msg |-> "Action error", val |-> 0]

\* C3: an action that raises takes the worker to the except handler, never
\* out of the loop; the handler passes "Action error" to flash_tray_title and
\* returns to the loop head, whatever that flash call does; the loop ends
\* only on the stop flag or on the __quit__ marker.
C3_FaultIsolation ==
    [][/\ (wpc \in {"run", "bright"} /\ wpc' # wpc
            => wpc' \in {"loop", "handler"})
       /\ (wpc = "handler" /\ wpc' # wpc
            => wpc' = "loop" /\ flashLog' = ErrorFlash)
       /\ (wpc # "done" /\ wpc' = "done"
            => \/ wpc = "loop" /\ _stop
               \/ wpc = "get" /\ q # <<>> /\ Head(q) = QuitItem)]_vars

\* a second action has failed after an earlier failure was reported, and the
\* worker is in its handler again
C3_Witness ==
    wpc = "handler" /\ flashLog = ErrorFlash /\ Len(execLog) >= 2

\* the worker's read-and-zero of the accumulator, ending a debounce wait
FlushStep == wpc = "debounce" /\ wpc' # "debounce"

\* C4 as stated: the delta of the flush is the sum of the add_brightness
\* deltas made in the debounce window (from the dequeue of the marker to the
\* read-and-zero), and safe_change_brightness is called once for it unless
\* that sum is zero.
C4_DeltaIsWindowSum ==
    [][FlushStep => /\ wdelta' = winAdded
                    /\ (wpc' = "bright") = (winAdded # 0)]_vars

\* C4 amended: the delta of the flush is the sum of all add_brightness deltas
\* made since the previous read-and-zero (the ones made before the marker was
\* dequeued included); the accumulator is left at zero; there is one
\* safe_change_brightness call for it when that sum is not zero and none
\* when it is zero, so a marker with no add since the last read-and-zero makes
\* no device call.
C4_Coalescing ==
    /\ [][FlushStep => /\ wdelta' = accAdded
                       /\ _bright_pending' = 0
                       /\ (wpc' = "bright") = (accAdded # 0)
                       /\ (wpc' = "loop") = (accAdded = 0)]_vars
    /\ [][wpc' = "bright" /\ wpc # "bright" => FlushStep]_vars
    /\ [](wpc = "bright" => wdelta # 0 /\ device["worker"] = "brightness")

\* two F6 presses were merged into one call of +20 while the second marker
\* is still queued
C4_Witness ==
    wpc = "bright" /\ wdelta = 20 /\ q # <<>> /\ Head(q) = FlushItem

\* no on_numlock_toggle call is in progress on any thread
Quiescent == \A t \in Threads : tpc[t] = "idle"

\* the handles held in state.hotkey_handles
HeldHandles == {hotkey_handles[i] : i \in 1..Len(hotkey_handles)}

\* C5: whenever no toggle is in progress, handles for the six keys exist
\* exactly in Media mode, they are the registered ones, and no key carries a
\* second registration that was never unbound.
C5_BindingInvariant ==
    Quiescent =>
        /\ (hotkey_handles # <<>>) <=> media_mode
        /\ registered = HeldHandles
        /\ \A g, h \in registered : g.key = h.key => g = h

\* C6: whenever no toggle is in progress, the mode is Media exactly when the
\* number of completed toggles is odd.
C6_StrictAlternation ==
    Quiescent => (media_mode <=> (toggles % 2 = 1))

\* the order the claim gives: the cached backend, then wmi, generic, ps without it
ClaimedOrder(cached) ==
    IF cached = None THEN Priority
    ELSE <<cached>> \o SelectSeq(Priority, LAMBDA m : m # cached)

\* C7: a call in which some backend works ends with the cache set to the
\* first working backend in the order (cached, wmi, generic, ps), whatever
\* was cached before; the backends tried are exactly the ones up to it, so a
\* cached backend that works again is the only one tried, and a cached
\* backend that fails is followed by the next untried ones in priority order.
C7_CacheUpdate ==
    (lastCall # NoCall /\ lastCall.works # {}) =>
        LET order == ClaimedOrder(lastCall.prev)
        IN  \E i \in 1..Len(order) :
                /\ order[i] \in lastCall.works
                /\ \A j \in 1..(i - 1) : order[j] \notin lastCall.works
                /\ BRIGHT_METHOD_LAST = order[i]
                /\ lastCall.tried = SubSeq(order, 1, i)
                /\ lastCall.changed

\* generic was cached and wmi works too: generic is tried first, succeeds,
\* and wmi is not tried
C7_Witness ==
    /\ lastCall.prev = "generic" /\ lastCall.works = {"wmi", "generic"}
    /\ lastCall.tried = <<"generic">> /\ BRIGHT_METHOD_LAST = "generic"

\* C8: a call in which every backend fails passes "Brightness: not
\* supported" to flash_tray_title and leaves BRIGHT_METHOD_LAST as it was.
C8_AllFailKeepsCache ==
    (lastCall # NoCall /\ lastCall.works = {}) =>
        /\ lastCall.flash.msg = "Brightness: not supported"
        /\ BRIGHT_METHOD_LAST = lastCall.prev
        /\ ~lastCall.changed /\ lastCall.writes = <<>>

\* ps was cached by an earlier call, then a call found no working backend
C8_Witness ==
    /\ lastCall # NoCall /\ lastCall.works = {} /\ lastCall.prev = "ps"
    /\ BRIGHT_METHOD_LAST = "ps" /\ Len(lastCall.tried) = 3

\* s is an initial segment of t
IsPrefix(s, t) == Len(s) <= Len(t) /\ SubSeq(t, 1, Len(s)) = s

\* C9: the items the worker has taken for execution are, in order, the
\* items enqueued first (brightness_flush markers included), and what was
\* enqueued is exactly what was executed, the __quit__ marker if it was
\* consumed, and what is still queued; so with an empty queue before stop()
\* everything enqueued was executed in enqueue order.
C9_Fifo ==
    /\ IsPrefix(execLog, enqLog)
    /\ \E mid \in {<<>>, <<QuitItem>>} : enqLog = execLog \o mid \o q
    /\ (q = <<>> /\ ~_stop) => execLog = enqLog

\* a burst of two flash actions was executed completely and in order
C9_Witness ==
    /\ execLog = <<Item("flash", "a"), Item("flash", "b")>>
    /\ q = <<>> /\ wpc = "loop" /\ flashLog.msg = "b"

\* C10: at most one device operation is in progress, it is in progress on
\* the worker thread while the worker runs an action, and a hotkey callback
\* step changes nothing but the queue, the accumulator and its own position.
C10_Serialized ==
    /\ [](/\ device["callback"] = "none"
          /\ Cardinality({w \in DOMAIN device : device[w] # "none"}) <= 1
          /\ (device["worker"] # "none" => wpc \in {"run", "bright"})
          /\ (wpc = "run" => device["worker"] = DeviceOf(cur))
          /\ (wpc = "bright" => device["worker"] = "brightness"))
    /\ [][ProducerStep =>
              /\ device' = device /\ wpc' = wpc
              /\ BRIGHT_METHOD_LAST' = BRIGHT_METHOD_LAST
              /\ flashLog' = flashLog
              /\ \/ q' = q
                 \/ \E k \in {"f1", "f2", "f3", "f4"} : q' = Append(q, KeyAction(k))
                 \/ q' = Append(q, FlushItem)]_vars

\* the worker is sending a volume key while a brightness callback is half
\* way through add_brightness
C10_Witness == device["worker"] = "volume" /\ cbpc = "put_flush"

\* C11: a stop() call made on a stopped worker (an earlier stop() call has
\* returned and the loop has ended) leaves the queue, the stop flag and the
\* worker's position as it found them.
C11_StopIdempotent ==
    [][(stops >= 1 /\ wpc = "done" /\ spc' # spc) =>
          (q' = q /\ _stop' = _stop /\ wpc' = wpc)]_vars

\* a call that resolved an endpoint and read and wrote its mute flag
Direct(r) == r.vol # None /\ r.read # <<>> /\ r.wrote # <<>>

\* C12: a call on the direct path writes the negation of the mute flag it
\* read, leaves the endpoint in the written state and reports "muted" or
\* "unmuted" for the written value; two consecutive direct calls on the same
\* endpoint leave it in the state it had before the first.
C12_MicInvolution ==
    /\ \A i \in 1..Len(micLog) :
          LET r == micLog[i]
          IN  Direct(r) =>
                /\ r.wrote[1] = (IF r.read[1] = 0 THEN 1 ELSE 0)
                /\ r.after[r.vol] = r.wrote[1]
                /\ r.reports[1] = (IF r.wrote[1] = 1 THEN "muted"
                                   ELSE "unmuted")
    /\ \A i \in 1..(Len(micLog) - 1) :
          (/\ Direct(micLog[i]) /\ Direct(micLog[i + 1])
           /\ micLog[i].vol = micLog[i + 1].vol)
          => micLog[i + 1].after[micLog[i].vol] = micLog[i].before[micLog[i].vol]

\* two direct toggles of the console endpoint: muted, then unmuted again
C12_Witness ==
    /\ Len(micLog) = 2 /\ Direct(micLog[1]) /\ Direct(micLog[2])
    /\ micLog[1].vol = "console" /\ micLog[2].vol = "console"
    /\ micLog[1].after["console"] = 1 /\ mute["console"] = 0
    /\ micLog[2].reports = <<"unmuted">>

\* the direct path failed in the environment of call r
DirectFailed(r) ==
    \/ ~r.env.console /\ ~r.env.comm
    \/ ~r.env.get
    \/ ~r.env.set

\* C13: the communications role is tried exactly when the console role did
\* not resolve; the WM_APPCOMMAND fallback is sent exactly when no endpoint
\* resolved or GetMute / SetMute failed, and then the report is "toggled" if
\* the command call returned and "error" if it raised.
C13_MicFallback ==
    \A i \in 1..Len(micLog) :
        LET r == micLog[i]
        IN  /\ r.tried = (IF r.env.console THEN <<"console">>
                          ELSE <<"console", "communications">>)
            /\ (r.cmd # "none") <=> DirectFailed(r)
            /\ DirectFailed(r) =>
                  /\ r.cmd = r.env.cmd
                  /\ r.reports[1] = (IF r.env.cmd = "exc" THEN "error"
                                     ELSE "toggled")
                  /\ r.wrote = <<>>

\* the console role did not resolve, the communications endpoint refused
\* the write, and the fallback command was sent
C13_Witness ==
    /\ micLog # <<>>
    /\ micLog[1].tried = <<"console", "communications">>
    /\ micLog[1].vol = "communications" /\ micLog[1].read # <<>>
    /\ micLog[1].wrote = <<>> /\ micLog[1].cmd = "ignored"
    /\ micLog[1].reports = <<"toggled">>

\* C14: a flush that finds the deltas added since the last flush summing to
\* zero goes straight back to the loop head: no safe_change_brightness call,
\* no device operation, cache and Notifier untouched; and every
\* safe_change_brightness call the worker makes has a non-zero delta.
C14_ZeroFlushNoCall ==
    /\ [][(FlushStep /\ accAdded = 0) =>
              /\ wpc' = "loop" /\ device'["worker"] = "none"
              /\ BRIGHT_METHOD_LAST' = BRIGHT_METHOD_LAST
              /\ flashLog' = flashLog]_vars
    /\ [][(wpc = "bright" /\ wpc' # "bright") => wdelta # 0]_vars

\* F5 then F6, the second inside the debounce window of the first marker:
\* the flush has run, found -10 + 10 = 0 and made no call
C14_Witness ==
    /\ wpc = "loop" /\ execLog = <<FlushItem>> /\ presses = 2
    /\ winAdded = 10 /\ _bright_pending = 0 /\ unflushed = 0
    /\ flashLog.msg = "" /\ BRIGHT_METHOD_LAST = None

\* C15: the backends a call tries are an initial segment of the order
\* (cached backend, then wmi, generic, ps without it): none is tried twice,
\* every one tried before the last failed, and the call stops at the first
\* one that works or after all three.
C15_AttemptOrder ==
    lastCall # NoCall =>
        LET order == ClaimedOrder(lastCall.prev)
            tried == lastCall.tried
        IN  /\ Len(order) = 3 /\ tried # <<>>
            /\ IsPrefix(tried, order)
            /\ \A i, j \in 1..Len(tried) : tried[i] = tried[j] => i = j
            /\ \A i \in 1..(Len(tried) - 1) : tried[i] \notin lastCall.works
            /\ \/ tried[Len(tried)] \in lastCall.works
               \/ Len(tried) = 3 /\ lastCall.works = {}

\* ps was cached and fails now, wmi fails, generic works: ps, wmi, generic
\* were tried in that order
C15_Witness ==
    /\ lastCall.prev = "ps" /\ lastCall.works = {"generic"}
    /\ lastCall.tried = <<"ps", "wmi", "generic">>

\* the target displays as the claim gives them: the enumerated displays with
\* an internal name when there is one, all enumerated displays otherwise
ClaimedTargets(monitors) ==
    LET all == {monitors[i] : i \in 1..Len(monitors)}
        internal == {m \in all : IsInternal(m)}
    IN  IF internal # {} THEN internal ELSE all

\* C16: every write of a per-display backend (wmi, generic) goes to a target
\* display; with no display enumerated both per-display backends fail and
\* the call goes on to ps.
C16_TargetsOnly ==
    lastCall # NoCall =>
        /\ \A i \in 1..Len(lastCall.writes) :
              lastCall.writes[i].method \in {"wmi", "generic"}
              => lastCall.writes[i].display \in ClaimedTargets(lastCall.monitors)
        /\ lastCall.monitors = <<>> =>
              /\ lastCall.works \subseteq {"ps"}
              /\ \E i \in 1..Len(lastCall.tried) : lastCall.tried[i] = "ps"

\* C17: every absolute value a backend attempt writes is
\* clamp(current + delta, 0, 100) for the value it read, and every value
\* collected for the report, like the value reported to the Notifier, lies in
\* 0..100.  (The relative write of the generic backend carries no value and
\* is not constrained here.)
C17_Clamped ==
    lastCall # NoCall =>
        /\ \A i \in 1..Len(lastCall.writes) :
              LET w == lastCall.writes[i]
              IN  w.abs => /\ w.read # <<>>
                           /\ w.val = clamp(w.read[1] + lastCall.delta, 0, 100)
                           /\ w.val \in 0..100
        /\ \A i \in 1..Len(lastCall.results) : lastCall.results[i] \in 0..100
        /\ lastCall.flash.msg = "Brightness: %" => lastCall.flash.val \in 0..100

\* C18: once the stop flag is set the loop ends (or the process does);
\* taking the __quit__ marker from the queue ends the loop; the marker is
\* never executed as an action, and nothing enqueued behind it is.
C18_Shutdown ==
    /\ _stop ~> (wpc = "done" \/ app = "exited")
    /\ [][(wpc = "get" /\ q # <<>> /\ Head(q) = QuitItem /\ wpc' # wpc)
            => wpc' = "done"]_vars
    /\ [](/\ IsPrefix(execLog, enqLog)
          /\ \A i \in 1..Len(enqLog) :
                enqLog[i] = QuitItem => Len(execLog) < i)

\* F1 was pressed after stop() queued the marker: the loop ended on the
\* marker and the volume action behind it stays in the queue
C18_Witness ==
    /\ wpc = "done" /\ enqLog = <<QuitItem, Item("volume", "volume mute")>>
    /\ q = <<Item("volume", "volume mute")>> /\ execLog = <<>>

\* C20: before stop(), a non-zero accumulator has a brightness_flush marker
\* queued, or a producer between its increment and its put, or the worker in
\* the debounce wait; the deltas added equal the deltas handed to
\* safe_change_brightness plus the accumulator; and a non-zero accumulator
\* is emptied again unless stop() intervenes.
C20_NoDeltaLost ==
    /\ []((~_stop /\ _bright_pending # 0) =>
            \/ \E i \in 1..Len(q) : q[i] = FlushItem
            \/ cbpc = "put_flush"
            \/ wpc = "debounce")
    /\ [](unflushed = _bright_pending)
    /\ (_bright_pending # 0) ~> (_bright_pending = 0 \/ _stop)

\* -10 was flushed to the backend, then +10 was added and its marker taken:
\* the accumulator is covered by the debounce wait alone
C20_Witness ==
    /\ execLog = <<FlushItem, FlushItem>> /\ flashLog.msg # ""
    /\ _bright_pending = 10 /\ unflushed = 10
    /\ wpc = "debounce" /\ q = <<>> /\ cbpc = "idle" /\ ~_stop

\* C19: once every flash restore timer has fired and no toggle or flash is
\* in progress, the tray title is the plain label of the current mode and the
\* icon shows that mode.
C19_LabelNeverStale ==
    (timers = EmptyBag /\ Quiescent /\ wpc = "loop") =>
        /\ icon.title = Title(media_mode)
        /\ icon.icon = IconText(media_mode)

====
